---- MODULE Spec2Model ----
(***************************************************************************)
(* Model of challenge.py: three address extractors (XML, TSV, plain text), *)
(* the dispatching loop of main(), and the final sort by ZIP code.         *)
(*                                                                         *)
(* A Python str is a sequence of one-character strings; a Python dict is a *)
(* function whose DOMAIN is its key set; a Python list is a sequence.      *)
(***************************************************************************)
EXTENDS Integers, Sequences, FiniteSets, TLC

VARIABLES files, pc, fi, k, data_list, all_data, stdout, stderr, exit_status

vars == <<files, pc, fi, k, data_list, all_data, stdout, stderr, exit_status>>

-----------------------------------------------------------------------------
(* Python values that are not str.                                         *)

\* None, as the value of element.text or of a column a short row lacks.
\* It is a one-element sequence holding a word that is no character, so it
\* can be compared with every str of the model and equals none of them.
None == <<"None">>

\* The result of ent.find(tag) when the entity has no such sub-element.
NoElement == <<"NoElement">>

-----------------------------------------------------------------------------
(* str operations                                                          *)

\* The characters of the model in code-point order; ord is the position, so
\* it orders characters as Python orders them.
CodePoints ==
    <<"\t", "\n", " ", ",", "-", ".", "/", "0", "1", "2", "3", "4", "5", "6",
      "7", "8", "9", "A", "B", "C", "D", "E", "F", "G", "H", "I", "J", "K",
      "L", "M", "N", "O", "P", "Q", "R", "S", "T", "U", "V", "W", "X", "Y",
      "Z", "a", "b", "c", "d", "e", "f", "g", "h", "i", "j", "k", "l", "m",
      "n", "o", "p", "q", "r", "s", "t", "u", "v", "w", "x", "y", "z">>

ord(c) == CHOOSE i \in 1..Len(CodePoints) : CodePoints[i] = c

isspace(c) == c \in {" ", "\t", "\n"}

\* s.strip()
strip(s) ==
    LET idx == {i \in 1..Len(s) : ~isspace(s[i])}
    IN  IF idx = {} THEN <<>>
        ELSE LET lo == CHOOSE i \in idx : \A j \in idx : i <= j
                 hi == CHOOSE i \in idx : \A j \in idx : j <= i
             IN  SubSeq(s, lo, hi)

\* s.find(sep) + 1: the first position where sep occurs in s, 0 when none.
find(s, sep) ==
    LET at == {i \in 1..(Len(s) - Len(sep) + 1) :
                   SubSeq(s, i, i + Len(sep) - 1) = sep}
    IN  IF at = {} THEN 0 ELSE CHOOSE i \in at : \A j \in at : i <= j

\* s.split(sep, maxsplit) for a non-empty sep; maxsplit = -1 is no limit.
RECURSIVE split(_, _, _)
split(s, sep, maxsplit) ==
    LET i == find(s, sep)
    IN  IF maxsplit = 0 \/ i = 0 THEN <<s>>
        ELSE <<SubSeq(s, 1, i - 1)>>
               \o split(SubSeq(s, i + Len(sep), Len(s)), sep, maxsplit - 1)

\* s.replace(old, "") for a non-empty old.
RECURSIVE remove(_, _)
remove(s, old) ==
    LET i == find(s, old)
    IN  IF i = 0 THEN s
        ELSE SubSeq(s, 1, i - 1) \o remove(SubSeq(s, i + Len(old), Len(s)), old)

\* s.endswith(suffix)
endswith(s, suffix) ==
    /\ Len(s) >= Len(suffix)
    /\ SubSeq(s, Len(s) - Len(suffix) + 1, Len(s)) = suffix

\* sep.join(parts)
RECURSIVE join(_, _)
join(sep, parts) ==
    IF parts = <<>> THEN <<>>
    ELSE IF Len(parts) = 1 THEN parts[1]
    ELSE parts[1] \o sep \o join(sep, Tail(parts))

\* a < b on str: lexicographic by code point, a proper prefix being smaller.
RECURSIVE str_lt(_, _)
str_lt(a, b) ==
    IF b = <<>> THEN FALSE
    ELSE IF a = <<>> THEN TRUE
    ELSE IF a[1] # b[1] THEN ord(a[1]) < ord(b[1])
    ELSE str_lt(Tail(a), Tail(b))

-----------------------------------------------------------------------------
(* dict operations                                                         *)

\* {}
EmptyDict == [key \in {} |-> <<>>]

\* data[key] = value
put(data, key, value) ==
    [x \in (DOMAIN data) \cup {key} |-> IF x = key THEN value ELSE data[x]]

-----------------------------------------------------------------------------
(* What one loop iteration of an extractor produces: either an exception   *)
(* (raised), or the dict built for the entry and whether it was appended   *)
(* to data_list.                                                           *)

Raised == [raised |-> TRUE, append |-> FALSE, data |-> EmptyDict]

Built(data, append) == [raised |-> FALSE, append |-> append, data |-> data]

-----------------------------------------------------------------------------
(* process_xml                                                             *)
(* An entity is a function from the six tags to NoElement (no such         *)
(* sub-element), None (the sub-element has no text) or the text.           *)

XmlTags == <<"NAME", "COMPANY", "STREET", "CITY", "STATE">>

\* tag.lower(), after COMPANY was renamed to organization
xml_key(tag) ==
    CASE tag = "NAME" -> "name"
      [] tag = "COMPANY" -> "organization"
      [] tag = "STREET" -> "street"
      [] tag = "CITY" -> "city"
      [] tag = "STATE" -> "state"

\* The loop over NAME, COMPANY, STREET, CITY, STATE of one entity.
\* element.text.strip() raises when the element is there and has no text.
RECURSIVE xml_tags(_, _, _)
xml_tags(ent, tags, data) ==
    IF tags = <<>> THEN Built(data, FALSE)
    ELSE LET element == ent[tags[1]]
         IN  IF element = NoElement THEN xml_tags(ent, Tail(tags), data)
             ELSE IF element = None THEN Raised
             ELSE IF strip(element) # <<>>
                  THEN xml_tags(ent, Tail(tags),
                                put(data, xml_key(tags[1]), strip(element)))
                  ELSE xml_tags(ent, Tail(tags), data)

\* "Handle ZIP code formatting": zip_code is the stripped POSTAL_CODE text.
xml_zip(data, zip_code) ==
    IF zip_code = <<>> THEN data
    ELSE LET parts == split(zip_code, <<"-">>, -1)
         IN  IF Len(parts) > 1 /\ parts[2] # <<>>
             THEN put(data, "zip", strip(parts[1]) \o <<"-">> \o strip(parts[2]))
             ELSE put(data, "zip", strip(parts[1]))

\* The body of "for ent in root.findall(...)" for one entity.
process_xml_ent(ent) ==
    LET t == xml_tags(ent, XmlTags, EmptyDict)
    IN  IF t.raised THEN Raised
        ELSE IF ent["POSTAL_CODE"] \in {NoElement, None} THEN Raised
        ELSE LET data == xml_zip(t.data, strip(ent["POSTAL_CODE"]))
             IN  Built(data, DOMAIN data # {})

\* sorted(data_list, key=lambda x: "zip" not in x): a stable insertion by
\* the boolean key, False before True.
RECURSIVE insort_zip_absent(_, _)
insort_zip_absent(acc, x) ==
    IF acc = <<>> THEN <<x>>
    ELSE IF "zip" \in DOMAIN x /\ "zip" \notin DOMAIN acc[1]
         THEN <<x>> \o acc
         ELSE <<acc[1]>> \o insort_zip_absent(Tail(acc), x)

RECURSIVE sorted_zip_absent(_, _)
sorted_zip_absent(acc, rest) ==
    IF rest = <<>> THEN acc
    ELSE sorted_zip_absent(insort_zip_absent(acc, rest[1]), Tail(rest))

\* process_xml_return as it would be with the first record looked at only
\* when there is one: an empty list is returned.
process_xml_return_guarded(dl) ==
    IF dl # <<>> /\ "zip" \in DOMAIN dl[1]
    THEN [raised |-> FALSE, data_list |-> sorted_zip_absent(<<>>, dl)]
    ELSE [raised |-> FALSE, data_list |-> dl]

\* The lines after the loop: data_list[0] raises IndexError on an empty
\* list; otherwise the list is returned, re-sorted when its first record
\* has a zip.
process_xml_return(dl) ==
    IF dl = <<>> THEN [raised |-> TRUE, data_list |-> <<>>]
    ELSE IF "zip" \in DOMAIN dl[1]
         THEN [raised |-> FALSE, data_list |-> sorted_zip_absent(<<>>, dl)]
         ELSE [raised |-> FALSE, data_list |-> dl]

-----------------------------------------------------------------------------
(* process_tsv                                                             *)
(* A row is the dict csv.DictReader yields: a record over the nine columns *)
(* whose values are str, or None for the columns a short row lacks.        *)

N_M_N == <<"N", "/", "M", "/", "N">>
N_A == <<"N", "/", "A">>
LLC == <<"L", "L", "C">>
Inc == <<"I", "n", "c", ".">>
Ltd == <<"L", "t", "d", ".">>

\* row["last"].endswith(("LLC", "Inc.", "Ltd."))
is_org_suffix(last) ==
    endswith(last, LLC) \/ endswith(last, Inc) \/ endswith(last, Ltd)

\* "Extract full name": drop the N/M/N components, strip, join with " ".
tsv_full_name(row) ==
    LET parts == <<row.first, row.middle, row.last>>
        kept == SelectSeq(parts, LAMBDA name : strip(name) # N_M_N)
    IN  join(<<" ">>, [i \in 1..Len(kept) |-> strip(kept[i])])

\* tsv_organization without the overwrite.
tsv_organization_kept(row) == row

\* if row["last"].endswith(...): row["organization"] = row["last"]
tsv_organization(row) ==
    IF is_org_suffix(row.last) THEN [row EXCEPT !.organization = row.last]
    ELSE row

\* The loop over address, city, state; row[key].strip() raises on None.
RECURSIVE tsv_address(_, _, _)
tsv_address(row, keys, data) ==
    IF keys = <<>> THEN Built(data, FALSE)
    ELSE IF row[keys[1]] = None THEN Raised
    ELSE IF strip(row[keys[1]]) # <<>>
         THEN tsv_address(row, Tail(keys), put(data, keys[1], strip(row[keys[1]])))
         ELSE tsv_address(row, Tail(keys), data)

\* "Handle zip code formatting": zip is always written.
tsv_zip(row, data) ==
    IF row.zip4 # None /\ row.zip4 # <<>>
    THEN IF row.zip = None THEN Raised
         ELSE Built(put(data, "zip", strip(row.zip) \o <<"-">> \o strip(row.zip4)),
                    FALSE)
    ELSE IF row.zip = None THEN Raised
         ELSE Built(put(data, "zip", strip(row.zip)), FALSE)

\* The else branch of the person test, which also holds the append.
tsv_else(row0) ==
    LET row == tsv_organization(row0)
        d1 == IF row.organization # N_A
              THEN put(EmptyDict, "organization", row.organization)
              ELSE EmptyDict
        a == tsv_address(row, <<"address", "city", "state">>, d1)
        z == IF a.raised THEN Raised ELSE tsv_zip(row, a.data)
    IN  IF z.raised THEN Raised ELSE Built(z.data, DOMAIN z.data # {})

\* The body of "for row in reader" for one row.  A person row builds
\* data["name"] and leaves the loop body without reaching the append.
process_tsv_row(row) ==
    IF None \in {row.first, row.middle, row.last} THEN Raised
    ELSE IF strip(tsv_full_name(row)) # <<>> /\ ~is_org_suffix(row.last)
         THEN Built(put(EmptyDict, "name", strip(tsv_full_name(row))), FALSE)
         ELSE tsv_else(row)

-----------------------------------------------------------------------------
(* process_plain_text                                                      *)

COUNTY == <<"C", "O", "U", "N", "T", "Y">>

\* content = file.read().strip(); entries = content.split("\n\n")
txt_entries(content) == split(strip(content), <<"\n", "\n">>, -1)

\* txt_zip with the hyphens removed from every token.
txt_zip_always(zip_code) == strip(remove(zip_code, <<"-">>))

\* The zip repair: a token ending in "-" with no other "-" loses it.
txt_zip(zip_code) ==
    IF endswith(zip_code, <<"-">>)
       /\ find(SubSeq(zip_code, 1, Len(zip_code) - 1), <<"-">>) = 0
    THEN strip(remove(zip_code, <<"-">>))
    ELSE strip(zip_code)

\* state_zip = city_state_zip[1].strip().split(" ", 1) and what follows;
\* state_zip[1] raises IndexError when there is no space.
txt_state_zip(data, rest) ==
    LET state_zip == split(strip(rest), <<" ">>, 1)
    IN  IF Len(state_zip) < 2 THEN Raised
        ELSE LET d1 == put(data, "state", strip(state_zip[1]))
                 d2 == put(d1, "zip", txt_zip(strip(state_zip[2])))
             IN  Built(d2, DOMAIN d2 # {})

\* The body of "for entry in entries" for one entry.  lines[1] raises on a
\* one-line entry, city_state_zip[1] on a last line without a comma.
process_txt_entry(entry) ==
    LET lines == split(strip(entry), <<"\n">>, -1)
    IN  IF Len(lines) < 2 THEN Raised
        ELSE LET d1 == put(EmptyDict, "name", strip(lines[1]))
                 d2 == put(d1, "street", strip(lines[2]))
                 city_state_zip == split(strip(lines[Len(lines)]), <<",">>, 1)
                 d3 == put(d2, "city", strip(city_state_zip[1]))
                 d4 == IF Len(lines) > 3
                       THEN put(d3, "county", strip(remove(strip(lines[3]), COUNTY)))
                       ELSE d3
             IN  IF Len(city_state_zip) < 2 THEN Raised
                 ELSE txt_state_zip(d4, city_state_zip[2])

-----------------------------------------------------------------------------
(* main: the final sort                                                    *)

\* lambda x: x.get("zip", "")
zip_key(x) == IF "zip" \in DOMAIN x THEN x["zip"] ELSE <<>>

\* insort with x going before the elements whose key equals its own.
RECURSIVE insort_before_equal(_, _)
insort_before_equal(acc, x) ==
    IF acc = <<>> THEN <<x>>
    ELSE IF ~str_lt(zip_key(acc[1]), zip_key(x))
         THEN <<x>> \o acc
         ELSE <<acc[1]>> \o insort_before_equal(Tail(acc), x)

\* sorted(all_data, key=...): a stable insertion, x going after every
\* element whose key is not greater than its own.
RECURSIVE insort(_, _)
insort(acc, x) ==
    IF acc = <<>> THEN <<x>>
    ELSE IF str_lt(zip_key(x), zip_key(acc[1]))
         THEN <<x>> \o acc
         ELSE <<acc[1]>> \o insort(Tail(acc), x)

RECURSIVE sorted(_, _)
sorted(acc, rest) ==
    IF rest = <<>> THEN acc
    ELSE sorted(insort(acc, rest[1]), Tail(rest))

-----------------------------------------------------------------------------
(* Inputs: the files named on the command line.                            *)
(* A file is its path, whether os.path.isfile and os.access accept it, and *)
(* what its extractor reads from it: the entities ET.parse finds (or that  *)
(* the markup does not parse), the rows csv.DictReader yields, or the text *)
(* file.read() returns.                                                    *)

MaxFiles == 2
MaxEnts == 3
MaxRows == 2
MaxEntries == 2
MaxZipLen == 3

SeqsUpTo(n, S) == UNION {[1..m -> S] : m \in 0..n}

\* Raw postal codes: every string of at most MaxZipLen characters over a
\* digit, the hyphen and the space, and the three examples of the
\* documentation.
ZipTexts ==
    SeqsUpTo(MaxZipLen, {"1", "-", " "})
      \cup {<<"1", "2", "3", "4", "5", "-", "6", "7", "8", "9">>,
            <<"1", "2", "3", "4", "5", "-">>,
            <<"1", "2", "3", "4", "5">>}

File(path, readable, wellformed, ents, rows, content) ==
    [path |-> path, readable |-> readable, wellformed |-> wellformed,
     ents |-> ents, rows |-> rows, content |-> content]

XmlFile(ents) == File(<<"a", ".", "x", "m", "l">>, TRUE, TRUE, ents, <<>>, <<>>)
TsvFile(rows) == File(<<"b", ".", "t", "s", "v">>, TRUE, TRUE, <<>>, rows, <<>>)
TxtFile(content) == File(<<"c", ".", "t", "x", "t">>, TRUE, TRUE, <<>>, <<>>, content)

\* Markup that ET.parse rejects, a path that is no readable file, and a
\* path with an extension main() does not know.
MalformedXml == File(<<"a", ".", "x", "m", "l">>, TRUE, FALSE, <<>>, <<>>, <<>>)
MissingFile == File(<<"a", ".", "x", "m", "l">>, FALSE, TRUE, <<>>, <<>>, <<>>)
CsvFile == File(<<"d", ".", "c", "s", "v">>, TRUE, TRUE, <<>>, <<>>, <<>>)

Ent(name, company, street, city, state, postal) ==
    ("NAME" :> name) @@ ("COMPANY" :> company) @@ ("STREET" :> street)
      @@ ("CITY" :> city) @@ ("STATE" :> state) @@ ("POSTAL_CODE" :> postal)

\* Entities of the files with several entities: a person with a zip, a
\* company with a blank postal code, an entity with nothing in it, and a
\* person whose zip sorts before "2" as a string.
CoreEnts ==
    {Ent(<<"A">>, NoElement, NoElement, NoElement, NoElement, <<"2">>),
     Ent(NoElement, <<"B">>, NoElement, NoElement, NoElement, <<" ">>),
     Ent(NoElement, <<" ">>, NoElement, NoElement, NoElement, <<"\n">>),
     Ent(<<"C">>, NoElement, NoElement, NoElement, NoElement, <<"1", "0">>)}

\* Entities of the one-entity files.  An element's text is never the empty
\* string: ElementTree gives None for an element without text.
XmlEnts ==
    {Ent(n, c, NoElement, NoElement, NoElement, <<"1">>) :
        n \in {NoElement, None, <<" ">>, <<"A">>},
        c \in {NoElement, <<" ">>, <<"B">>, <<"B", " ">>}}
      \cup {Ent(<<"A">>, NoElement, NoElement, NoElement, NoElement, z) :
               z \in (ZipTexts \ {<<>>}) \cup {NoElement, None}}
      \cup {Ent(NoElement, NoElement, s, c, st, <<" ", "2">>) :
               s \in {NoElement, <<"S">>},
               c \in {NoElement, <<" ", "C">>},
               st \in {NoElement, <<"T">>}}

XmlFiles ==
    {XmlFile(<<e>>) : e \in XmlEnts}
      \cup {XmlFile(s) : s \in SeqsUpTo(MaxEnts, CoreEnts)}
      \cup {MalformedXml}

Row(first, middle, last, organization, address, city, state, zip, zip4) ==
    [first |-> first, middle |-> middle, last |-> last,
     organization |-> organization, address |-> address, city |-> city,
     state |-> state, zip |-> zip, zip4 |-> zip4]

AcmeInc == <<"A", "c", "m", "e", " ", "I", "n", "c", ".">>
XLLC == <<"X", " ", "L", "L", "C">>
YLtd == <<"Y", " ", "L", "t", "d", ".">>

\* Rows of the files with several rows: an organization with the zip of the
\* first core entity, a person, and an organization with a zip4.
CoreRows ==
    {Row(<<>>, <<>>, XLLC, N_A, <<"1", " ", "S">>, <<"C">>, <<"T">>, <<"2">>, <<>>),
     Row(<<"A">>, N_M_N, <<"B">>, N_A, <<"1", " ", "S">>, <<"C">>, <<"T">>, <<"3">>, <<>>),
     Row(N_M_N, N_M_N, N_M_N, <<"O">>, <<>>, <<>>, <<>>, <<"1">>, <<"2">>)}

\* Rows of the one-row files.  A short row has None in its last columns.
TsvRows ==
    {Row(f, m, l, o, <<"1", " ", "S">>, <<"C">>, <<"T">>, <<"1">>, <<>>) :
        f \in {<<>>, N_M_N, <<"A">>, <<" ", "A">>},
        m \in {<<>>, N_M_N, <<"M">>},
        l \in {<<>>, N_M_N, <<"B">>, AcmeInc, XLLC, YLtd},
        o \in {N_A, <<"O">>, <<>>, <<" ", "O">>}}
      \cup {Row(<<>>, <<>>, XLLC, N_A, a, c, <<"T">>, z, z4) :
               a \in {<<>>, <<" ">>, <<"S", " ">>},
               c \in {<<>>, <<"C">>},
               z \in {<<>>, <<"1">>, <<" ", "1", " ">>},
               z4 \in {<<>>, <<"2">>, <<" ">>}}
      \cup {Row(<<>>, <<>>, XLLC, N_A, <<"S">>, <<"C">>, <<"T">>, None, None),
            Row(<<"A">>, <<>>, <<"B">>, N_A, <<"S">>, <<"C">>, <<"T">>, None, None),
            Row(<<"A">>, <<>>, XLLC, None, None, None, None, None, None),
            Row(<<"A">>, None, None, None, None, None, None, None, None)}

TsvFiles ==
    {TsvFile(<<r>>) : r \in TsvRows}
      \cup {TsvFile(s) : s \in SeqsUpTo(MaxRows, CoreRows)}

\* A free-text file is written as its entries, an entry as its lines.
Entry(lines) == join(<<"\n">>, lines)
Content(entries) == join(<<"\n", "\n">>, entries) \o <<"\n">>

CoreEntries ==
    {Entry(<<<<"J">>, <<"1", " ", "E">>, <<"C", ",", " ", "S", " ", "1">>>>),
     Entry(<<<<"K">>, <<"1", " ", "E">>, <<"W", " ", "C", "O", "U", "N", "T", "Y">>, <<"D", ",", " ", "T", " ", "2">>>>),
     Entry(<<<<"L">>, <<"1", " ", "E">>, <<"C", " ", "S", " ", "1">>>>)}

TxtEntries ==
    {Entry(<<<<"J">>, <<"1", " ", "E">>, <<"C", ",", " ", "S", " ">> \o z>>) : z \in ZipTexts}
      \cup {Entry(<<<<"J">>, s, c, l>>) :
               s \in {<<"1", " ", "E">>, <<" ">>},
               c \in {<<"W", " ", "C", "O", "U", "N", "T", "Y">>, COUNTY},
               l \in {<<"C", ",", " ", "S", " ", "1">>, <<",", " ", "S", " ", "1">>, <<"C", " ", "S", " ", "1">>, <<"C", ",", "S">>, <<"C", ",", " ", "S", " ", "-">>}}
      \cup {Entry(<<<<"J">>, <<" ">>, l>>) : l \in {<<"C", ",", " ", "S", " ", "1">>, <<",", " ", "S", " ", "1">>}}
      \cup {Entry(<<<<"J">>>>),
            Entry(<<<<"J">>, <<"C", ",", " ", "S", " ", "1">>>>),
            Entry(<<<<"J">>, <<"1", " ", "E">>, <<"W", " ", "C", "O", "U", "N", "T", "Y">>, <<"x">>, <<"C", ",", " ", "S", " ", "1">>>>)}

TxtFiles ==
    {TxtFile(Content(<<e>>)) : e \in TxtEntries}
      \cup {TxtFile(Content(s)) : s \in SeqsUpTo(MaxEntries, CoreEntries)}
      \cup {TxtFile(<<>>)}

\* Every file a one-file run is given.
AllFiles == XmlFiles \cup TsvFiles \cup TxtFiles \cup {MissingFile, CsvFile}

\* The files a run of several files draws from: for each extractor a file
\* it accepts, and a file of each kind that ends the run.
MainFiles ==
    {XmlFile(<<Ent(<<"A">>, NoElement, NoElement, NoElement, NoElement, <<"2">>),
               Ent(NoElement, <<"B">>, NoElement, NoElement, NoElement, <<" ">>)>>),
     XmlFile(<<>>),
     XmlFile(<<Ent(NoElement, <<" ">>, NoElement, NoElement, NoElement, <<"\n">>)>>),
     MalformedXml,
     TsvFile(<<Row(<<>>, <<>>, XLLC, N_A, <<"1", " ", "S">>, <<"C">>, <<"T">>, <<"2">>, <<>>)>>),
     TsvFile(<<Row(<<"A">>, N_M_N, <<"B">>, N_A, <<>>, <<>>, <<>>, <<"3">>, <<>>),
               Row(<<>>, <<>>, AcmeInc, N_A, <<>>, <<>>, <<>>, <<"1">>, <<"2">>)>>),
     TxtFile(Content(<<Entry(<<<<"J">>, <<"1", " ", "E">>, <<"C", ",", " ", "S", " ", "1">>>>),
                       Entry(<<<<"K">>, <<"1", " ", "E">>, <<"W", " ", "C", "O", "U", "N", "T", "Y">>, <<"D", ",", " ", "T", " ", "2">>>>)>>)),
     TxtFile(Content(<<Entry(<<<<"L">>, <<"1", " ", "E">>, <<"C", " ", "S", " ", "1">>>>)>>)),
     MissingFile,
     CsvFile}

-----------------------------------------------------------------------------
(* The run                                                                 *)

\* args.files holds one or more paths (nargs='+'); nothing has run yet, and
\* exit_status is -1 while the process has not exited.
Init ==
    /\ files \in {<<f>> : f \in AllFiles}
                   \cup (SeqsUpTo(MaxFiles, MainFiles) \ {<<>>})
    /\ pc = "main"
    /\ fi = 1
    /\ k = 1
    /\ data_list = <<>>
    /\ all_data = <<>>
    /\ stdout = <<>>
    /\ stderr = <<>>
    /\ exit_status = -1

\* sys.stderr.write(message); sys.exit(1)
sys_exit(message) ==
    /\ stderr' = Append(stderr, message)
    /\ exit_status' = 1
    /\ pc' = "exit"
    /\ UNCHANGED <<files, fi, k, data_list, all_data, stdout>>

\* An except block that reports the error and returns what was built so
\* far instead of leaving the process.
process_plain_text_except_continue ==
    /\ stderr' = Append(stderr, <<"Error parsing plain text file", fi>>)
    /\ all_data' = all_data \o data_list
    /\ fi' = fi + 1
    /\ pc' = "main"
    /\ UNCHANGED <<files, k, data_list, stdout, exit_status>>

\* The except blocks of the three extractors.
process_xml_except == sys_exit(<<"Error parsing XML file", fi>>)
process_tsv_except == sys_exit(<<"Error parsing TSV file", fi>>)
process_plain_text_except == sys_exit(<<"Error parsing plain text file", fi>>)

\* all_data.extend(<the extractor's return value>), and on to the next file.
extend(returned) ==
    /\ all_data' = all_data \o returned
    /\ fi' = fi + 1
    /\ pc' = "main"
    /\ UNCHANGED <<files, k, data_list, stdout, stderr, exit_status>>

\* One iteration of "for file_path in args.files", up to the call of the
\* extractor.
main_loop ==
    /\ pc = "main"
    /\ fi <= Len(files)
    /\ LET file_path == files[fi].path
       IN  IF ~files[fi].readable
           THEN sys_exit(<<"Error: File does not exist or is not readable", fi>>)
           ELSE IF \/ endswith(file_path, <<".", "x", "m", "l">>)
                   \/ endswith(file_path, <<".", "t", "s", "v">>)
                   \/ endswith(file_path, <<".", "t", "x", "t">>)
           THEN /\ pc' = IF endswith(file_path, <<".", "x", "m", "l">>) THEN "process_xml"
                         ELSE IF endswith(file_path, <<".", "t", "s", "v">>) THEN "process_tsv"
                         ELSE "process_plain_text"
                /\ k' = 1
                /\ data_list' = <<>>
                /\ UNCHANGED <<files, fi, all_data, stdout, stderr, exit_status>>
           ELSE sys_exit(<<"Unsupported file format", fi>>)

\* tree = ET.parse(file_path); root = tree.getroot(); data_list = []
process_xml_parse ==
    /\ pc = "process_xml"
    /\ IF files[fi].wellformed
       THEN /\ pc' = "process_xml_loop"
            /\ UNCHANGED <<files, fi, k, data_list, all_data, stdout, stderr,
                           exit_status>>
       ELSE process_xml_except

\* One iteration of "for ent in root.findall(".//ENT")".
process_xml_loop ==
    /\ pc = "process_xml_loop"
    /\ k <= Len(files[fi].ents)
    /\ LET r == process_xml_ent(files[fi].ents[k])
       IN  IF r.raised THEN process_xml_except
           ELSE /\ data_list' = IF r.append THEN Append(data_list, r.data)
                                ELSE data_list
                /\ k' = k + 1
                /\ UNCHANGED <<files, pc, fi, all_data, stdout, stderr,
                               exit_status>>

\* After the loop: the reordering and "return data_list".
process_xml_end ==
    /\ pc = "process_xml_loop"
    /\ k > Len(files[fi].ents)
    /\ LET r == process_xml_return(data_list)
       IN  IF r.raised THEN process_xml_except ELSE extend(r.data_list)

\* One iteration of "for row in reader".
process_tsv_loop ==
    /\ pc = "process_tsv"
    /\ k <= Len(files[fi].rows)
    /\ LET r == process_tsv_row(files[fi].rows[k])
       IN  IF r.raised THEN process_tsv_except
           ELSE /\ data_list' = IF r.append THEN Append(data_list, r.data)
                                ELSE data_list
                /\ k' = k + 1
                /\ UNCHANGED <<files, pc, fi, all_data, stdout, stderr,
                               exit_status>>

\* "return data_list" of process_tsv.
process_tsv_end ==
    /\ pc = "process_tsv"
    /\ k > Len(files[fi].rows)
    /\ extend(data_list)

\* One iteration of "for entry in entries".
process_plain_text_loop ==
    /\ pc = "process_plain_text"
    /\ k <= Len(txt_entries(files[fi].content))
    /\ LET r == process_txt_entry(txt_entries(files[fi].content)[k])
       IN  IF r.raised THEN process_plain_text_except
           ELSE /\ data_list' = IF r.append THEN Append(data_list, r.data)
                                ELSE data_list
                /\ k' = k + 1
                /\ UNCHANGED <<files, pc, fi, all_data, stdout, stderr,
                               exit_status>>

\* "return data_list" of process_plain_text.
process_plain_text_end ==
    /\ pc = "process_plain_text"
    /\ k > Len(txt_entries(files[fi].content))
    /\ extend(data_list)

\* After the last file: sort, print the document, leave with status 0.
main_print ==
    /\ pc = "main"
    /\ fi > Len(files)
    /\ stdout' = Append(stdout, sorted(<<>>, all_data))
    /\ exit_status' = 0
    /\ pc' = "exit"
    /\ UNCHANGED <<files, fi, k, data_list, all_data, stderr>>

Next ==
    \/ main_loop
    \/ process_xml_parse
    \/ process_xml_loop
    \/ process_xml_end
    \/ process_tsv_loop
    \/ process_tsv_end
    \/ process_plain_text_loop
    \/ process_plain_text_end
    \/ main_print

Spec == Init /\ [][Next]_vars

-----------------------------------------------------------------------------
(* Vocabulary of the properties                                            *)

\* The records of a list, and the records the run has built or printed.
RecordsOf(list) == {list[i] : i \in 1..Len(list)}

Extracted == RecordsOf(data_list) \cup RecordsOf(all_data)

Printed == UNION {RecordsOf(stdout[d]) : d \in 1..Len(stdout)}

Canonical == {"name", "organization", "street", "city", "county", "state", "zip"}

Blank(s) == \A i \in 1..Len(s) : isspace(s[i])

\* a <= b in string order, said without recursion: a is a prefix of b, or
\* the first position where they differ holds the smaller character in a.
StrLeq(a, b) ==
    \/ /\ Len(a) <= Len(b)
       /\ \A i \in 1..Len(a) : a[i] = b[i]
    \/ \E i \in 1..Len(a) :
          /\ i <= Len(b)
          /\ \A j \in 1..(i - 1) : a[j] = b[j]
          /\ ord(a[i]) < ord(b[i])

\* The zip a record is sorted by: the empty string when it has none.
ZipOf(r) == IF "zip" \in DOMAIN r THEN r["zip"] ELSE <<>>

HasSuffix(last) ==
    \E suffix \in {<<"L", "L", "C">>, <<"I", "n", "c", ".">>, <<"L", "t", "d", ".">>} :
        /\ Len(last) >= Len(suffix)
        /\ \A i \in 1..Len(suffix) : last[Len(last) - Len(suffix) + i] = suffix[i]

IsStr(v) == v # None /\ v # NoElement

CompleteRow(row) ==
    \A col \in {"first", "middle", "last", "organization", "address", "city",
                "state", "zip", "zip4"} : IsStr(row[col])

HasExt(f, ext) == endswith(f.path, ext)

Supported(f) == HasExt(f, <<".", "x", "m", "l">>) \/ HasExt(f, <<".", "t", "s", "v">>) \/ HasExt(f, <<".", "t", "x", "t">>)

\* A free-text file with an entry whose last line has no comma.
NoCommaEntry(f) ==
    /\ f.readable
    /\ HasExt(f, <<".", "t", "x", "t">>)
    /\ \E e \in RecordsOf(split(strip(f.content), <<"\n", "\n">>, -1)) :
          LET lines == split(strip(e), <<"\n">>, -1)
          IN  \A i \in 1..Len(lines[Len(lines)]) : lines[Len(lines)][i] # ","

\* A file that must end the run: missing or unreadable, of an unsupported
\* extension, markup that does not parse, or free text with a last line
\* without a comma.
Fatal(f) ==
    \/ ~f.readable
    \/ ~Supported(f)
    \/ HasExt(f, <<".", "x", "m", "l">>) /\ ~f.wellformed
    \/ NoCommaEntry(f)

\* A well-formed markup file that yields no record: every entity has a
\* blank postal code and no non-blank NAME, COMPANY, STREET, CITY or STATE.
ZeroYield(f) ==
    /\ f.readable
    /\ HasExt(f, <<".", "x", "m", "l">>)
    /\ f.wellformed
    /\ \A e \in RecordsOf(f.ents) :
          /\ IsStr(e["POSTAL_CODE"]) /\ Blank(e["POSTAL_CODE"])
          /\ \A tag \in {"NAME", "COMPANY", "STREET", "CITY", "STATE"} :
                e[tag] = NoElement \/ (IsStr(e[tag]) /\ Blank(e[tag]))

-----------------------------------------------------------------------------
(* C1 *)

\* C1: all-or-nothing run.  When any file of the run is missing or
\* unreadable, has an unsupported extension, or makes its extractor fail
\* (markup that does not parse, a free-text last line without a comma),
\* no document is ever written and the process exits with status 1, also
\* when earlier files were extracted; a reported error always ends the run
\* with status 1 and no document; a document is written only once, with
\* status 0, after every file was extracted without an error.
C1_AllOrNothing ==
    /\ (\E i \in 1..Len(files) : Fatal(files[i]))
          => /\ stdout = <<>>
             /\ exit_status # 0
             /\ pc = "exit" => exit_status = 1
    /\ stderr # <<>> => pc = "exit" /\ exit_status = 1 /\ stdout = <<>>
    /\ stdout # <<>>
          => /\ pc = "exit" /\ exit_status = 0
             /\ Len(stdout) = 1
             /\ fi = Len(files) + 1
             /\ stderr = <<>>
    /\ pc = "exit" <=> exit_status \in {0, 1}

\* C1 witness: a run that extracted its first file, met a free-text file
\* with a comma-less last line second, and exited 1 with nothing printed.
C1_Witness ==
    /\ pc = "exit" /\ exit_status = 1 /\ stdout = <<>>
    /\ Len(files) = 2 /\ fi = 2
    /\ all_data # <<>>
    /\ NoCommaEntry(files[2])

-----------------------------------------------------------------------------
(* C2 *)

\* The place of all_data[i] in the stable ascending order by zip: after the
\* records of smaller zip and after the earlier records of equal zip.
Rank(i) ==
    1 + Cardinality({j \in 1..Len(all_data) :
            \/ ~StrLeq(ZipOf(all_data[i]), ZipOf(all_data[j]))
            \/ ZipOf(all_data[j]) = ZipOf(all_data[i]) /\ j < i})

\* C2: merge-and-sort.  all_data grows only when an extractor returns, by
\* the records of the next file in argument order put after the records
\* it holds; and the printed document is that concatenation in stable
\* ascending order of zip, compared as strings, a record without zip
\* counting as "": adjacent records are in order, Rank is a permutation of
\* the positions that carries every record of all_data unchanged to its
\* place in the output, nothing added or dropped, and records of equal zip
\* keep their relative order.
C2_MergeSort ==
    /\ [][all_data' # all_data
             => /\ pc \in {"process_xml_loop", "process_tsv", "process_plain_text"}
                /\ pc' = "main"
                /\ fi' = fi + 1
                /\ SubSeq(all_data', 1, Len(all_data)) = all_data
                /\ pc # "process_xml_loop"
                      => SubSeq(all_data', Len(all_data) + 1, Len(all_data'))
                            = data_list]_vars
    /\ [](stdout # <<>> =>
            LET out == stdout[1]
                n == Len(all_data)
            IN  /\ Len(out) = n
                /\ fi = Len(files) + 1
                /\ \A i \in 1..(n - 1) : StrLeq(ZipOf(out[i]), ZipOf(out[i + 1]))
                /\ {Rank(i) : i \in 1..n} = 1..n
                /\ \A i \in 1..n : out[Rank(i)] = all_data[i]
                /\ \A i, j \in 1..n :
                      (i < j /\ ZipOf(all_data[i]) = ZipOf(all_data[j]))
                          => Rank(i) < Rank(j))

\* C2 witness: a printed document whose order differs from all_data, with
\* a record without zip and two different records of equal zip.
C2_Witness ==
    /\ stdout # <<>>
    /\ stdout[1] # all_data
    /\ \E r \in Printed : "zip" \notin DOMAIN r
    /\ \E i, j \in 1..Len(all_data) :
          /\ i < j
          /\ all_data[i] # all_data[j]
          /\ "zip" \in DOMAIN all_data[i]
          /\ ZipOf(all_data[i]) = ZipOf(all_data[j])

-----------------------------------------------------------------------------
(* C3 *)

\* C3: every record of the printed document has only keys of the canonical
\* field set {name, organization, street, city, county, state, zip}, and
\* no printed record has zero keys.
C3_CanonicalKeys ==
    \A r \in Printed : DOMAIN r # {} /\ DOMAIN r \subseteq Canonical

-----------------------------------------------------------------------------
(* C4 *)

\* C4: in every record an extractor has produced, every field present has
\* a value that is not the empty string and neither starts nor ends with
\* whitespace.
C4_ValuesTrimmedNonEmpty ==
    \A r \in Extracted : \A key \in DOMAIN r :
        /\ r[key] # <<>>
        /\ ~isspace(r[key][1])
        /\ ~isspace(r[key][Len(r[key])])

-----------------------------------------------------------------------------
(* C5 *)

\* C5: no record an extractor has produced holds both a name and an
\* organization.
C5_NameXorOrganization ==
    \A r \in Extracted : ~({"name", "organization"} \subseteq DOMAIN r)

-----------------------------------------------------------------------------
(* C6 *)

\* C6: when the tabular extractor is done with its rows, its result holds,
\* for every row whose assembled name is non-blank and whose last does not
\* end with LLC, Inc. or Ltd., a record that is exactly the assembled name.
C6_PersonRowKept ==
    (pc = "process_tsv" /\ k > Len(files[fi].rows)) =>
        \A row \in RecordsOf(files[fi].rows) :
            (/\ CompleteRow(row)
             /\ ~Blank(tsv_full_name(row))
             /\ ~HasSuffix(row.last))
                => \E r \in RecordsOf(data_list) :
                      /\ DOMAIN r = {"name"}
                      /\ r["name"] = strip(tsv_full_name(row))

-----------------------------------------------------------------------------
(* C7 *)

\* C7: tabular organization detection.  A step of the tabular extractor on
\* a row whose last ends with LLC, Inc. or Ltd. appends, unless the row
\* makes it raise, exactly one record, whose organization is the value of
\* last and which has no name, whatever first, middle and the organization
\* column hold; a row with all nine columns does not make it raise.
C7_OrganizationDetection ==
    [][(/\ pc = "process_tsv"
        /\ k <= Len(files[fi].rows)
        /\ IsStr(files[fi].rows[k].last)
        /\ HasSuffix(files[fi].rows[k].last))
          => /\ CompleteRow(files[fi].rows[k]) => pc' = "process_tsv"
             /\ pc' = "process_tsv" =>
                   /\ Len(data_list') = Len(data_list) + 1
                   /\ SubSeq(data_list', 1, Len(data_list)) = data_list
                   /\ LET r == data_list'[Len(data_list')]
                      IN  /\ "organization" \in DOMAIN r
                          /\ r["organization"] = files[fi].rows[k].last
                          /\ "name" \notin DOMAIN r]_vars

\* C7 witness: the row first = "A", last = "Acme Inc.", organization = "O"
\* was processed and gave an Acme Inc. organization without name.
C7_Witness ==
    /\ pc = "process_tsv" /\ k = 2
    /\ files[fi].rows[1].first = <<"A">>
    /\ files[fi].rows[1].last = <<"A", "c", "m", "e", " ", "I", "n", "c", ".">>
    /\ files[fi].rows[1].organization = <<"O">>
    /\ Len(data_list) = 1
    /\ "organization" \in DOMAIN data_list[1]
    /\ data_list[1]["organization"] = <<"A", "c", "m", "e", " ", "I", "n", "c", ".">>
    /\ "name" \notin DOMAIN data_list[1]

-----------------------------------------------------------------------------
(* C8 *)

\* The zip each documented raw postal code must give.
ZipExamples ==
    {<<<<"1", "2", "3", "4", "5", "-", "6", "7", "8", "9">>, <<"1", "2", "3", "4", "5", "-", "6", "7", "8", "9">>>>,
     <<<<"1", "2", "3", "4", "5", "-">>, <<"1", "2", "3", "4", "5">>>>,
     <<<<"1", "2", "3", "4", "5">>, <<"1", "2", "3", "4", "5">>>>}

\* The raw zip token of a free-text entry: what follows the first space of
\* the trimmed part after the first comma of its last line.
RawZipToken(entry) ==
    LET lines == split(strip(entry), <<"\n">>, -1)
        after == split(strip(lines[Len(lines)]), <<",">>, 1)[2]
    IN  split(strip(after), <<" ">>, 1)[2]

\* A token that ends in a hyphen and has no other hyphen.
Dangling(token) ==
    /\ token # <<>>
    /\ token[Len(token)] = "-"
    /\ \A i \in 1..(Len(token) - 1) : token[i] # "-"

\* C8: zip normalization.  A step of the markup extractor on an entity
\* whose postal code is "12345-6789", "12345-" or "12345", and a step of
\* the free-text extractor on an entry whose raw zip token is one of them,
\* appends a record whose zip is "12345-6789", "12345", "12345"; and the
\* free-text extractor keeps every raw token that does not end in a
\* dangling single hyphen as the trimmed token.
C8_ZipNormalization ==
    [][/\ (pc = "process_xml_loop" /\ pc' = "process_xml_loop"
             /\ k <= Len(files[fi].ents))
          => \A ex \in ZipExamples :
                files[fi].ents[k]["POSTAL_CODE"] = ex[1]
                   => /\ Len(data_list') = Len(data_list) + 1
                      /\ "zip" \in DOMAIN data_list'[Len(data_list')]
                      /\ data_list'[Len(data_list')]["zip"] = ex[2]
       /\ (pc = "process_plain_text" /\ pc' = "process_plain_text"
             /\ k <= Len(txt_entries(files[fi].content)))
          => LET token == RawZipToken(txt_entries(files[fi].content)[k])
                 r == data_list'[Len(data_list')]
             IN  /\ Len(data_list') = Len(data_list) + 1
                 /\ "zip" \in DOMAIN r
                 /\ \A ex \in ZipExamples : token = ex[1] => r["zip"] = ex[2]
                 /\ ~Dangling(token) => r["zip"] = strip(token)]_vars

\* C8 witness: a free-text entry whose raw zip token is "12345-" was
\* processed and its record has zip "12345".
C8_Witness ==
    /\ pc = "process_plain_text" /\ k = 2
    /\ RawZipToken(txt_entries(files[fi].content)[1]) = <<"1", "2", "3", "4", "5", "-">>
    /\ Len(data_list) = 1
    /\ data_list[1]["zip"] = <<"1", "2", "3", "4", "5">>

-----------------------------------------------------------------------------
(* C9 *)

WithoutZip(list) == SelectSeq(list, LAMBDA r : "zip" \notin DOMAIN r)

WithZip(list) == SelectSeq(list, LAMBDA r : "zip" \in DOMAIN r)

\* C9: markup local reordering.  What process_xml returns (the records
\* main appends to all_data) is, when the first record built has a zip,
\* the records lacking zip followed by the records having one, each group
\* in entity order, and otherwise the sequence in entity order.
C9_LocalReorder ==
    [][(pc = "process_xml_loop" /\ pc' = "main")
          => LET returned == SubSeq(all_data', Len(all_data) + 1, Len(all_data'))
             IN  IF "zip" \in DOMAIN data_list[1]
                 THEN returned = WithoutZip(data_list) \o WithZip(data_list)
                 ELSE returned = data_list]_vars

-----------------------------------------------------------------------------
(* C10 *)

\* C10: a well-formed markup file that yields zero records ends the run.
\* The run never gets past such a file, never prints a document, and when
\* it exits at that file it exits with status 1 on the extractor's error.
C10_ZeroRecordsFatal ==
    \A i \in 1..Len(files) :
        ZeroYield(files[i])
            => /\ fi <= i
               /\ stdout = <<>>
               /\ exit_status # 0
               /\ (pc = "exit" /\ fi = i)
                     => /\ exit_status = 1
                        /\ stderr = <<<<"Error parsing XML file", i>>>>
               /\ (pc = "process_xml_loop" /\ fi = i) => data_list = <<>>

\* C10 witness: the first file was extracted, the second is a markup file
\* of one entity with nothing in it, and the run exited 1 there.
C10_Witness ==
    /\ pc = "exit" /\ exit_status = 1 /\ stdout = <<>>
    /\ Len(files) = 2 /\ fi = 2
    /\ all_data # <<>>
    /\ ZeroYield(files[2])
    /\ files[2].ents # <<>>

====
